---- MODULE Spec2Model ----
(***************************************************************************)
(* A model of lokidata (src/lokidata/__init__.py): the data root finder    *)
(* find_data_roots, the readers read_tmd / read_log / read_dat, the line   *)
(* parsers _parse_tmd_line / _parse_dat_line, the field registries and the *)
(* converters.                                                             *)
(*                                                                         *)
(* Text is modelled as sequences of one-character strings, file contents   *)
(* as sequences of byte tokens, so that decoding, line splitting, field    *)
(* splitting and number parsing are computed and not assumed.              *)
(***************************************************************************)
EXTENDS Integers, Sequences, FiniteSets, TLC

VARIABLES
    dirs,             \* find: the directories of the file system (paths)
    files,            \* find: the regular files of the file system (paths)
    project_root,     \* find: the argument of the outermost call
    ignore_patterns,  \* find: the patterns given (None behaves as the empty set)
    fpc,              \* find: "setup", "running", "done"
    stack,            \* find: directories whose find_data_roots call is pending
    visited,          \* find: directories find_data_roots was called on
    enumerated,       \* find: directories whose iterdir() was called
    yielded,          \* find: the sequence of paths yielded so far
    content,          \* read: the bytes of the file the readers are given
    kind,             \* read: what was written to it: "none", "delimited", "dat"
    locale,           \* read: the encoding open() uses when none is passed
                      \*       ("unset" until a call has used it)
    rpc,              \* read: where read_tmd is: "idle", "loop", "detect"
    encIdx,           \* read: read_tmd's position in its tuple of encodings
    attempts,         \* read: the encodings read_tmd has opened the file with
    results,          \* read: per function, how its call on the file ended
    base,             \* read: how read_dat ended on the first line alone
    appended          \* read: the number of lines appended after the first

findVars == <<dirs, files, project_root, ignore_patterns, fpc, stack, visited,
              enumerated, yielded>>

readVars == <<content, kind, locale, rpc, encIdx, attempts, results, base, appended>>

vars == <<findVars, readVars>>

-----------------------------------------------------------------------------
(* Bounds of the model. *)

\* the file system holds at most this many entries below its top directory
MaxEntries == 5

\* a TMD or LOG file holds at most this many lines
MaxLines == 3

\* at most this many lines are appended after the first line of a DAT file
MaxAppended == 2

-----------------------------------------------------------------------------
(* Generic helpers. *)

\* F of the value of v, with v evaluated once
Once(v, F(_)) == CHOOSE y \in {F(x) : x \in {v}} : TRUE

SeqToSet(s) == Once(s, LAMBDA t : {t[i] : i \in 1..Len(t)})

\* all orderings of a finite set, as sequences without repetition
Orderings(S) ==
    {s \in [1..Cardinality(S) -> S] : \A i, j \in 1..Cardinality(S) : s[i] = s[j] => i = j}

IsPrefix(p, q) == Len(p) <= Len(q) /\ SubSeq(q, 1, Len(p)) = p

-----------------------------------------------------------------------------
(* The data root finder. *)

\* directory and file names the environment may create
Names == {"Pictures", "Telemetrie", "a"}

\* names of the regular files the environment may create: the two names the
\* search looks for (a file of any other name is filtered out the same way)
FileNames == {"Pictures", "Telemetrie"}

Top == <<"top">>

\* the sets of glob patterns a caller may pass: relative patterns, one
\* component pattern per path component, "*" or a literal name
PatternSets == {{}, {<<"a">>}, {<<"a", "*">>}, {<<"*", "Telemetrie">>, <<"a">>}}

\* fnmatch of one path component against one component pattern
ComponentMatch(name, pat) == pat = "*" \/ pat = name

\* pathlib's PurePath.match for a relative pattern: matching is done from the
\* right, component by component; a pattern longer than the path never matches
PathMatch(path, pat) ==
    /\ Len(pat) <= Len(path)
    /\ \A i \in 1..Len(pat) :
          ComponentMatch(path[Len(path) - Len(pat) + i], pat[i])

\* an ignore test that never matches
ShouldIgnoreNever(path, pats) == FALSE

\* lines 259-261: ignore_patterns is not None and any(project_root.match(pat) ...)
ShouldIgnore(path, pats) == \E pat \in pats : PathMatch(path, pat)

\* the entries iterdir() lists for a directory
IterDir(d) == {p \in dirs \cup files : Len(p) = Len(d) + 1 /\ IsPrefix(d, p)}

\* line 264: subdirs = [p for p in project_root.iterdir() if p.is_dir()]
Subdirs(d) == {p \in IterDir(d) : p \in dirs}

PathName(p) == p[Len(p)]

\* lines 266-268: any(p.name == "Pictures" ...) and any(p.name == "Telemetrie" ...)
IsDataRoot(subdirs) ==
    /\ \E p \in subdirs : PathName(p) = "Pictures"
    /\ \E p \in subdirs : PathName(p) = "Telemetrie"

\* a search that goes on below a match
RecurseIntoAlways(subdirs) == subdirs

\* lines 266-273: the subdirectories the call recurses into
RecurseInto(subdirs) == IF IsDataRoot(subdirs) THEN {} ELSE subdirs

InitFind ==
    /\ dirs = {Top}
    /\ files = {}
    /\ project_root = Top
    /\ ignore_patterns = {}
    /\ fpc = "setup"
    /\ stack = <<>>
    /\ visited = {}
    /\ enumerated = {}
    /\ yielded = <<>>
    /\ content = <<>>
    /\ kind = "none"
    /\ locale = "unset"
    /\ rpc = "idle"
    /\ encIdx = 0
    /\ attempts = <<>>
    /\ results = [f \in {"read_tmd", "read_log", "read_dat"} |->
                     [done |-> FALSE, attempts |-> <<>>, remapped |-> FALSE,
                      outcome |-> [kind |-> "none", rec |-> <<>>, parsed |-> 0,
                                   exc |-> [type |-> "", msg |-> "", notes |-> <<>>]]]]
    /\ base = [done |-> FALSE, attempts |-> <<>>, remapped |-> FALSE,
               outcome |-> [kind |-> "none", rec |-> <<>>, parsed |-> 0,
                            exc |-> [type |-> "", msg |-> "", notes |-> <<>>]]]
    /\ appended = 0

\* the environment creates a directory
Mkdir ==
    /\ fpc = "setup"
    /\ Cardinality(dirs) + Cardinality(files) - 1 < MaxEntries
    /\ \E d \in dirs, n \in Names :
          /\ Append(d, n) \notin dirs \cup files
          /\ dirs' = dirs \cup {Append(d, n)}
    /\ UNCHANGED <<files, project_root, ignore_patterns, fpc, stack, visited,
                   enumerated, yielded, readVars>>

\* the environment creates a regular file
Touch ==
    /\ fpc = "setup"
    /\ Cardinality(dirs) + Cardinality(files) - 1 < MaxEntries
    /\ \E d \in dirs, n \in FileNames :
          /\ Append(d, n) \notin dirs \cup files
          /\ files' = files \cup {Append(d, n)}
    /\ UNCHANGED <<dirs, project_root, ignore_patterns, fpc, stack, visited,
                   enumerated, yielded, readVars>>

\* the caller starts iterating find_data_roots(root, pats)
CallFind ==
    /\ fpc = "setup"
    /\ \E root \in dirs, pats \in PatternSets :
          /\ project_root' = root
          /\ ignore_patterns' = pats
          /\ stack' = <<root>>
    /\ fpc' = "running"
    /\ UNCHANGED <<dirs, files, visited, enumerated, yielded, readVars>>

\* one invocation of find_data_roots (lines 253-273) on the directory whose
\* call is next: the ignore test, the enumeration, the yield or the recursion
\* into the subdirectories in the order iterdir() happened to list them
FindStep ==
    /\ fpc = "running"
    /\ stack # <<>>
    /\ LET d == Head(stack) IN
          /\ visited' = visited \cup {d}
          /\ IF ShouldIgnore(d, ignore_patterns)
             THEN /\ stack' = Tail(stack)
                  /\ UNCHANGED <<enumerated, yielded>>
             ELSE /\ enumerated' = enumerated \cup {d}
                  /\ yielded' = IF IsDataRoot(Subdirs(d))
                                THEN Append(yielded, d) ELSE yielded
                  /\ \E order \in Orderings(RecurseInto(Subdirs(d))) :
                        stack' = order \o Tail(stack)
    /\ UNCHANGED <<dirs, files, project_root, ignore_patterns, fpc, readVars>>

\* the generator is exhausted
FindReturn ==
    /\ fpc = "running"
    /\ stack = <<>>
    /\ fpc' = "done"
    /\ UNCHANGED <<dirs, files, project_root, ignore_patterns, stack, visited,
                   enumerated, yielded, readVars>>

NextFind == Mkdir \/ Touch \/ CallFind \/ FindStep \/ FindReturn

-----------------------------------------------------------------------------
(* Text: characters are one-token strings; "LF" is the newline and "TAB"   *)
(* the tab character.  File contents are sequences of byte tokens: an      *)
(* ASCII byte is written as its character, the other bytes as "xHH".       *)

NonAsciiBytes == {"xE4", "x81", "xC3", "xA4"}

Encodings == <<"utf-8", "Windows-1252">>

NoText == <<>>

\* the result of decoding: ok, the text, and the index of the first byte
\* that could not be decoded (0 when ok)
Decoded(t) == [ok |-> TRUE, text |-> t, bad |-> 0]

DecodeFailed(t, i) == [ok |-> FALSE, text |-> t, bad |-> i]

\* the smallest and the largest element of a set of integers
MinOf(S) == CHOOSE x \in S : \A y \in S : x <= y

MaxOf(S) == CHOOSE x \in S : \A y \in S : y <= x

\* the indices of s whose element is in the set cs, in increasing order
Positions(s, cs) ==
    Once(s, LAMBDA t : SelectSeq([i \in 1..Len(t) |-> i], LAMBDA i : t[i] \in cs))

\* the strict UTF-8 codec on the byte tokens: ASCII bytes stand for
\* themselves, C3 A4 is one two-byte character, every other use of a
\* non-ASCII byte is malformed
Utf8Leads(bytes, i) == bytes[i] = "xC3" /\ i < Len(bytes) /\ bytes[i + 1] = "xA4"

Utf8Continues(bytes, i) == bytes[i] = "xA4" /\ i > 1 /\ bytes[i - 1] = "xC3"

Utf8Malformed(bytes) ==
    {i \in 1..Len(bytes) : /\ bytes[i] \in NonAsciiBytes
                           /\ ~Utf8Leads(bytes, i)
                           /\ ~Utf8Continues(bytes, i)}

\* the characters of the first n bytes
Utf8Text(bytes, n) ==
    Once(SelectSeq([i \in 1..n |-> i], LAMBDA i : ~Utf8Continues(bytes, i)), LAMBDA starts :
        [k \in 1..Len(starts) |->
            IF bytes[starts[k]] = "xC3" THEN "a_uml" ELSE bytes[starts[k]]])

DecodeUtf8(bytes) ==
    Once(Utf8Malformed(bytes), LAMBDA bad :
        IF bad = {} THEN Decoded(Utf8Text(bytes, Len(bytes)))
        ELSE Once(MinOf(bad), LAMBDA i : DecodeFailed(Utf8Text(bytes, i - 1), i)))

\* the strict Windows-1252 codec: every byte is one character, 0x81 is
\* one of the five bytes the code page leaves undefined
Cp1252Char(b) ==
    CASE b = "xE4" -> "a_uml"
      [] b = "xC3" -> "A_tilde"
      [] b = "xA4" -> "currency"
      [] OTHER -> b

DecodeCp1252(bytes) ==
    Once({i \in 1..Len(bytes) : bytes[i] = "x81"}, LAMBDA bad :
        IF bad = {} THEN Decoded([i \in 1..Len(bytes) |-> Cp1252Char(bytes[i])])
        ELSE Once(MinOf(bad), LAMBDA b :
                DecodeFailed([i \in 1..(b - 1) |-> Cp1252Char(bytes[i])], b)))

Decode(bytes, encoding) ==
    Once(bytes, LAMBDA b : IF encoding = "utf-8" THEN DecodeUtf8(b) ELSE DecodeCp1252(b))

\* str.rstrip(c): every trailing c is removed
RECURSIVE RStrip(_, _)
RStrip(s, c) ==
    IF Len(s) > 0 /\ s[Len(s)] = c THEN RStrip(SubSeq(s, 1, Len(s) - 1), c) ELSE s

\* the index of the first c in s, 0 when there is none
IndexOf(s, c) == Once(Positions(s, {c}), LAMBDA at : IF at = <<>> THEN 0 ELSE Head(at))

\* str.split(sep, 1): one part without a separator, else the parts before
\* and after the first one
Split1(s, sep) ==
    Once(s, LAMBDA t :
        Once(IndexOf(t, sep), LAMBDA p :
            IF p = 0 THEN <<t>> ELSE <<SubSeq(t, 1, p - 1), SubSeq(t, p + 1, Len(t))>>))

\* str.split(sep): the parts between all the separators
SplitAll(s, sep) ==
    Once(s, LAMBDA t :
        Once(<<0>> \o Positions(t, {sep}) \o <<Len(t) + 1>>, LAMBDA ends :
            [k \in 1..(Len(ends) - 1) |-> SubSeq(t, ends[k] + 1, ends[k + 1] - 1)]))

\* str.replace(a, b) for single characters
Replace(s, a, b) == [i \in 1..Len(s) |-> IF s[i] = a THEN b ELSE s[i]]

\* the lines a text file object iterates over, each with its terminator
LineEnds(t) ==
    <<0>> \o Positions(t, {"LF"}) \o (IF t = NoText THEN <<>>
                                       ELSE IF t[Len(t)] = "LF" THEN <<>> ELSE <<Len(t)>>)

SplitLines(text) ==
    Once(text, LAMBDA t :
        Once(LineEnds(t), LAMBDA ends :
            [k \in 1..(Len(ends) - 1) |-> SubSeq(t, ends[k] + 1, ends[k + 1])]))

\* the number of complete lines among the first n tokens
CountLF(t, n) == Cardinality({i \in 1..n : t[i] = "LF"})

\* f.readline(): the first line with its terminator, "" at end of file
FirstLine(t) == IF t = NoText THEN NoText ELSE SplitLines(t)[1]

-----------------------------------------------------------------------------
(* Converters.  A converted value is a sequence of tokens that starts with *)
(* its type.  Numbers are parsed over the characters the inputs use:       *)
(* digits, sign, "." (no exponent, "inf", "nan", blank or "_").            *)

Digits == {"0", "1", "2", "3", "4", "5", "6", "7", "8", "9"}

DigitValue ==
    [c \in Digits |->
        CASE c = "0" -> 0 [] c = "1" -> 1 [] c = "2" -> 2 [] c = "3" -> 3
          [] c = "4" -> 4 [] c = "5" -> 5 [] c = "6" -> 6 [] c = "7" -> 7
          [] c = "8" -> 8 [] c = "9" -> 9]

AllDigits(s) == \A i \in 1..Len(s) : s[i] \in Digits

RECURSIVE Number(_)
Number(s) == IF s = <<>> THEN 0 ELSE 10 * Number(SubSeq(s, 1, Len(s) - 1)) + DigitValue[s[Len(s)]]

HasSign(s) == Len(s) > 0 /\ s[1] \in {"+", "-"}

Unsigned(s) == IF HasSign(s) THEN Tail(s) ELSE s

RECURSIVE StripLeadingZeros(_)
StripLeadingZeros(s) ==
    IF Len(s) > 1 /\ s[1] = "0" THEN StripLeadingZeros(Tail(s)) ELSE s

\* the result of a conversion: the value, or the exception raised
Converted(v) == [ok |-> TRUE, value |-> v, exc |-> "", msg |-> ""]

ConversionError(type, msg) == [ok |-> FALSE, value |-> <<>>, exc |-> type, msg |-> msg]

\* int(s), base 10
IsIntLiteral(s) == Once(Unsigned(s), LAMBDA u : Len(u) > 0 /\ AllDigits(u))

IntValue(s) == IF HasSign(s) /\ s[1] = "-" THEN 0 - Number(Unsigned(s)) ELSE Number(Unsigned(s))

ConvertInt(s) ==
    Once(s, LAMBDA t :
        IF IsIntLiteral(t)
        THEN Converted(<<"int">> \o (IF IntValue(t) < 0 THEN <<"-">> ELSE <<>>)
                                 \o StripLeadingZeros(Unsigned(t)))
        ELSE ConversionError("ValueError", "invalid literal for int()"))

\* float(s): an optional sign, digits with at most one point, one digit at least
IsFloatLiteral(s) ==
    Once(Unsigned(s), LAMBDA u :
        /\ \A i \in 1..Len(u) : u[i] \in Digits \cup {"."}
        /\ Cardinality({i \in 1..Len(u) : u[i] = "."}) <= 1
        /\ \E i \in 1..Len(u) : u[i] \in Digits)

\* the digits before and after the point, "0" for none, without the zeros
\* that do not count
WholeDigits(whole) == StripLeadingZeros(IF whole = <<>> THEN <<"0">> ELSE whole)

FracDigits(frac) == Once(RStrip(frac, "0"), LAMBDA f : IF f = <<>> THEN <<"0">> ELSE f)

FloatValue(s) ==
    Once(Split1(Unsigned(s), "."), LAMBDA parts :
        <<"float">> \o (IF HasSign(s) /\ s[1] = "-" THEN <<"-">> ELSE <<>>)
                    \o WholeDigits(parts[1]) \o <<".">>
                    \o FracDigits(IF Len(parts) = 2 THEN parts[2] ELSE <<>>))

ConvertFloat(s) ==
    Once(s, LAMBDA t :
        IF IsFloatLiteral(t) THEN Converted(FloatValue(t))
        ELSE ConversionError("ValueError", "could not convert string to float"))

NAN == <<"nan">>

\* german_float without its except clause: the ValueError leaves it
german_float_strict(s) == ConvertFloat(Replace(s, ",", "."))

\* lines 42-46: float(s.replace(",", ".")), NAN on a ValueError
german_float(s) ==
    Once(ConvertFloat(Replace(s, ",", ".")), LAMBDA r : IF r.ok THEN r ELSE Converted(NAN))

IsLeap(y) == (y % 4 = 0 /\ y % 100 # 0) \/ y % 400 = 0

DaysInMonth(y, m) ==
    IF m = 2 THEN (IF IsLeap(y) THEN 29 ELSE 28)
    ELSE IF m \in {4, 6, 9, 11} THEN 30 ELSE 31

Pad2(s) == IF Len(s) = 1 THEN <<"0">> \o s ELSE s

\* lines 49-50: strptime(s, "%d.%m.%Y").date(): day and month of one or two
\* digits, a year of four, a date that exists
german_date(s) ==
    Once(SplitAll(s, "."), LAMBDA parts :
    IF /\ Len(parts) = 3
       /\ \A i \in 1..3 : AllDigits(parts[i])
       /\ Len(parts[1]) \in {1, 2} /\ Len(parts[2]) \in {1, 2} /\ Len(parts[3]) = 4
       /\ Number(parts[3]) >= 1
       /\ Number(parts[2]) \in 1..12
       /\ Number(parts[1]) \in 1..DaysInMonth(Number(parts[3]), Number(parts[2]))
    THEN Converted(<<"date">> \o parts[3] \o <<"-">> \o Pad2(parts[2])
                              \o <<"-">> \o Pad2(parts[1]))
    ELSE ConversionError("ValueError", "does not match format %d.%m.%Y"))

\* datetime.time.fromisoformat(s) on HH, HH:MM and HH:MM:SS
time_fromisoformat(s) ==
    Once(SplitAll(s, ":"), LAMBDA parts :
    IF /\ Len(parts) \in 1..3
       /\ \A i \in 1..Len(parts) : AllDigits(parts[i]) /\ Len(parts[i]) = 2
       /\ Number(parts[1]) \in 0..23
       /\ \A i \in 2..Len(parts) : Number(parts[i]) \in 0..59
    THEN Converted(<<"time">> \o parts[1] \o <<":">>
                    \o (IF Len(parts) >= 2 THEN parts[2] ELSE <<"0", "0">>) \o <<":">>
                    \o (IF Len(parts) = 3 THEN parts[3] ELSE <<"0", "0">>))
    ELSE ConversionError("ValueError", "Invalid isoformat string"))

\* the converter of a registry entry applied to a raw value; None keeps the string
Convert(converter, s) ==
    CASE converter = "None" -> Converted(<<"str">> \o s)
      [] converter = "german_float" -> german_float(s)
      [] converter = "float" -> ConvertFloat(s)
      [] converter = "int" -> ConvertInt(s)
      [] converter = "german_date" -> german_date(s)
      [] converter = "time.fromisoformat" -> time_fromisoformat(s)

-----------------------------------------------------------------------------
(* The field registries: code -> (name, converter). *)

\* lines 53-83
TMD_FIELDS ==
       (1 :> [name |-> "DEVICE", converter |-> "None"])
    @@ (5 :> [name |-> "GPS_LON", converter |-> "german_float"])
    @@ (6 :> [name |-> "GPS_LAT", converter |-> "german_float"])
    @@ (10 :> [name |-> "PRESS", converter |-> "german_float"])
    @@ (11 :> [name |-> "TEMP", converter |-> "german_float"])
    @@ (20 :> [name |-> "OXY_CON", converter |-> "german_float"])
    @@ (21 :> [name |-> "OXY_SAT", converter |-> "german_float"])
    @@ (22 :> [name |-> "OXY_TEMP", converter |-> "german_float"])
    @@ (30 :> [name |-> "COND_COND", converter |-> "german_float"])
    @@ (31 :> [name |-> "COND_TEMP", converter |-> "german_float"])
    @@ (32 :> [name |-> "COND_SALY", converter |-> "german_float"])
    @@ (33 :> [name |-> "COND_DENS", converter |-> "german_float"])
    @@ (34 :> [name |-> "COND_SSPEED", converter |-> "german_float"])
    @@ (40 :> [name |-> "FLOUR_1", converter |-> "german_float"])
    @@ (41 :> [name |-> "FLOUR_CR", converter |-> "german_float"])
    @@ (42 :> [name |-> "FLOUR_CV", converter |-> "german_float"])
    @@ (43 :> [name |-> "FLOUR_TR", converter |-> "german_float"])
    @@ (44 :> [name |-> "FLOUR_TD", converter |-> "german_float"])
    @@ (200 :> [name |-> "ROLL", converter |-> "german_float"])
    @@ (201 :> [name |-> "PITCH", converter |-> "german_float"])
    @@ (202 :> [name |-> "NICK", converter |-> "german_float"])
    @@ (230 :> [name |-> "LOKI_REC", converter |-> "None"])
    @@ (231 :> [name |-> "LOKI_PIC", converter |-> "int"])
    @@ (232 :> [name |-> "LOKI_FRAME", converter |-> "german_float"])
    @@ (235 :> [name |-> "CAM_STAT", converter |-> "None"])
    @@ (240 :> [name |-> "HOUSE_STAT", converter |-> "None"])
    @@ (241 :> [name |-> "HOUSE_T1", converter |-> "german_float"])
    @@ (242 :> [name |-> "HOUSE_T2", converter |-> "german_float"])
    @@ (243 :> [name |-> "HOUSE_VOLT", converter |-> "german_float"])

\* lines 85-109
DAT_FIELDS ==
       (1 :> [name |-> "FW_REV", converter |-> "None"])
    @@ (2 :> [name |-> "COND_SSPEED", converter |-> "float"])
    @@ (3 :> [name |-> "COND_DENS", converter |-> "float"])
    @@ (4 :> [name |-> "COND_TEMP", converter |-> "float"])
    @@ (5 :> [name |-> "COND_COND", converter |-> "float"])
    @@ (6 :> [name |-> "COND_SALY", converter |-> "float"])
    @@ (7 :> [name |-> "OXY_CON", converter |-> "float"])
    @@ (8 :> [name |-> "OXY_SAT", converter |-> "float"])
    @@ (9 :> [name |-> "OXY_TEMP", converter |-> "float"])
    @@ (10 :> [name |-> "HOUSE_T1", converter |-> "float"])
    @@ (11 :> [name |-> "HOUSE_VOLT", converter |-> "float"])
    @@ (16 :> [name |-> "FLOUR_1", converter |-> "float"])
    @@ (17 :> [name |-> "UNKNOWN", converter |-> "None"])
    @@ (18 :> [name |-> "UNKNOWN", converter |-> "None"])
    @@ (19 :> [name |-> "UNKNOWN", converter |-> "None"])
    @@ (20 :> [name |-> "PRESS", converter |-> "float"])
    @@ (21 :> [name |-> "TEMP", converter |-> "float"])
    @@ (22 :> [name |-> "UNKNOWN", converter |-> "None"])
    @@ (23 :> [name |-> "LOKI_REC", converter |-> "None"])
    @@ (24 :> [name |-> "LOKI_PIC", converter |-> "None"])
    @@ (25 :> [name |-> "LOKI_FRAME", converter |-> "None"])
    @@ (26 :> [name |-> "GPS_LAT", converter |-> "float"])
    @@ (27 :> [name |-> "GPS_LON", converter |-> "float"])

\* lines 111-136
LOG_FIELDS ==
       (1 :> [name |-> "DATE", converter |-> "german_date"])
    @@ (2 :> [name |-> "TIME", converter |-> "time.fromisoformat"])
    @@ (3 :> [name |-> "PICTURE#", converter |-> "int"])
    @@ (4 :> [name |-> "DEVICE", converter |-> "None"])
    @@ (5 :> [name |-> "LOKI", converter |-> "None"])
    @@ (6 :> [name |-> "FW_REV", converter |-> "None"])
    @@ (7 :> [name |-> "SW_REV", converter |-> "None"])
    @@ (8 :> [name |-> "CRUISE", converter |-> "None"])
    @@ (9 :> [name |-> "STATION", converter |-> "None"])
    @@ (10 :> [name |-> "STATION_NR", converter |-> "None"])
    @@ (11 :> [name |-> "HAUL", converter |-> "None"])
    @@ (12 :> [name |-> "USER", converter |-> "None"])
    @@ (13 :> [name |-> "SHIP", converter |-> "None"])
    @@ (14 :> [name |-> "SHIP_PORT", converter |-> "None"])
    @@ (15 :> [name |-> "SHIP_STAT", converter |-> "None"])
    @@ (16 :> [name |-> "SHIP_AFF", converter |-> "None"])
    @@ (17 :> [name |-> "GPS_SRC", converter |-> "None"])
    @@ (18 :> [name |-> "FIX_LON", converter |-> "german_float"])
    @@ (19 :> [name |-> "FIX_LAT", converter |-> "german_float"])
    @@ (20 :> [name |-> "TEMP_INDEX", converter |-> "None"])
    @@ (61 :> [name |-> "ERROR", converter |-> "None"])
    @@ (62 :> [name |-> "WAKEUP", converter |-> "None"])
    @@ (63 :> [name |-> "STOP_DATE", converter |-> "german_date"])
    @@ (64 :> [name |-> "STOP_TIME", converter |-> "time.fromisoformat"])

-----------------------------------------------------------------------------
(* The line parsers. *)

NoExc == [type |-> "", msg |-> "", notes |-> <<>>]

Exc(type, msg, notes) == [type |-> type, msg |-> msg, notes |-> notes]

\* the result of parsing one line: the (name, value) pair, or the exception
Pair(name, value) == [ok |-> TRUE, name |-> name, value |-> value, exc |-> NoExc]

Raised(exc) == [ok |-> FALSE, name |-> "", value |-> <<>>, exc |-> exc]

\* line 143: the note is made from the line as read, terminator included
OffendingLine(line) == <<"Offending line: ">> \o line

\* lines 151, 166
FieldNote(name) == <<"Field ", name>>

\* a lookup that gives an unknown code a default entry
LookupOrUnknown(fields, code) ==
    IF code \in DOMAIN fields THEN [found |-> TRUE, name |-> fields[code].name,
                                    converter |-> fields[code].converter]
    ELSE [found |-> TRUE, name |-> "UNKNOWN", converter |-> "None"]

\* lines 146, 160: fields[...], a KeyError when the code is absent
Lookup(fields, code) ==
    IF code \in DOMAIN fields THEN [found |-> TRUE, name |-> fields[code].name,
                                    converter |-> fields[code].converter]
    ELSE [found |-> FALSE, name |-> "", converter |-> "None"]

\* lines 147-154, 162-169: the converter applied, its failure re-raised with
\* the note naming the field
ApplyConverter(name, converter, raw) ==
    Once(Convert(converter, raw), LAMBDA c :
        IF c.ok THEN Pair(name, c.value)
        ELSE Raised(Exc(c.exc, c.msg, <<FieldNote(name)>>)))

\* lines 139-154
parse_tmd_line(line, fields) ==
    Once(Split1(RStrip(line, "LF"), ";"), LAMBDA parts :
        IF Len(parts) # 2
        THEN \* line 141: the unpacking fails inside the try; lines 142-144 add the note
             Raised(Exc("ValueError", "not enough values to unpack", <<OffendingLine(line)>>))
        ELSE IF ~IsIntLiteral(parts[1])
        THEN \* line 146: int(idx) is outside the try: no note is added
             Raised(Exc("ValueError", "invalid literal for int()", <<>>))
        ELSE LET f == Lookup(fields, IntValue(parts[1])) IN
             IF ~f.found THEN Raised(Exc("KeyError", "", <<>>))
             ELSE ApplyConverter(f.name, f.converter, parts[2]))

\* lines 157-169
parse_dat_line(idx, line, fields) ==
    LET f == Lookup(fields, idx) IN
    IF ~f.found THEN Raised(Exc("KeyError", "", <<>>))
    ELSE ApplyConverter(f.name, f.converter, RStrip(line, "LF"))

-----------------------------------------------------------------------------
(* Records: a dict, kept as the sequence of its items in insertion order. *)

Keys(d) == {d[k].name : k \in 1..Len(d)}

Get(d, key) == d[CHOOSE k \in 1..Len(d) : d[k].name = key].value

\* a dict that keeps the first value of a key
DictSetFirstWins(rec, name, value) ==
    IF name \in Keys(rec) THEN rec
    ELSE Append(rec, [name |-> name, value |-> value])

\* dict(pairs) item by item: a key seen again keeps its place and takes the
\* new value
DictSet(rec, name, value) ==
    IF name \in Keys(rec)
    THEN [i \in 1..Len(rec) |->
            IF rec[i].name = name THEN [name |-> name, value |-> value] ELSE rec[i]]
    ELSE Append(rec, [name |-> name, value |-> value])

\* what a call, or one attempt of it, ends in: a Record returned or an
\* exception raised, after `parsed` lines (columns) were parsed
Returned(rec, n) == [kind |-> "return", rec |-> rec, exc |-> NoExc, parsed |-> n]

Raise(exc, n) == [kind |-> "raise", rec |-> <<>>, exc |-> exc, parsed |-> n]

NoOutcome == [kind |-> "none", rec |-> <<>>, exc |-> NoExc, parsed |-> 0]

UnicodeDecodeError == Exc("UnicodeDecodeError", "", <<>>)

\* a pass that skips the lines that fail to parse
RECURSIVE ParseLinesSkipping(_, _, _, _)
ParseLinesSkipping(lines, i, fields, rec) ==
    IF i > Len(lines) THEN Returned(rec, Len(lines))
    ELSE Once(parse_tmd_line(lines[i], fields), LAMBDA r :
            IF r.ok
            THEN Once(DictSet(rec, r.name, r.value), LAMBDA d :
                     ParseLinesSkipping(lines, i + 1, fields, d))
            ELSE ParseLinesSkipping(lines, i + 1, fields, rec))

\* lines 179, 229: dict(_parse_tmd_line(l, fields) for l in f), the first
\* exception ends the generator and the dict call
RECURSIVE ParseLines(_, _, _, _)
ParseLines(lines, i, fields, rec) ==
    IF i > Len(lines) THEN Returned(rec, Len(lines))
    ELSE Once(parse_tmd_line(lines[i], fields), LAMBDA r :
            IF r.ok
            THEN Once(DictSet(rec, r.name, r.value), LAMBDA d :
                     ParseLines(lines, i + 1, fields, d))
            ELSE Raise(r.exc, i - 1))

\* lines 200-204: dict(_parse_dat_line(i, f, DAT_FIELDS) for i, f in
\* enumerate(fields, 1) if i in DAT_FIELDS): the columns lo..hi in order,
\* from the outcome acc of the columns before them
RECURSIVE ParseColumnRange(_, _, _, _)
ParseColumnRange(columns, lo, hi, acc) ==
    IF acc.kind = "raise" THEN acc
    ELSE IF lo < hi
    THEN Once(ParseColumnRange(columns, lo, (lo + hi) \div 2, acc), LAMBDA a :
             ParseColumnRange(columns, (lo + hi) \div 2 + 1, hi, a))
    ELSE IF lo \notin DOMAIN DAT_FIELDS THEN Returned(acc.rec, lo)
    ELSE Once(parse_dat_line(lo, columns[lo], DAT_FIELDS), LAMBDA r :
            IF r.ok THEN Returned(DictSet(acc.rec, r.name, r.value), lo)
            ELSE Raise(r.exc, lo - 1))

ParseColumns(columns) ==
    Once(columns, LAMBDA cs : ParseColumnRange(cs, 1, Len(cs), Returned(<<>>, 0)))

\* lines 178-179, 228-229: one pass over the file opened with an encoding.
\* The text layer decodes a block of bytes at a time: a byte that cannot be
\* decoded raises when its block is read, after any number k of the complete
\* lines before it were handed out (which k depends on where the blocks end).
FileLines(bytes, encoding) ==
    Once(Decode(bytes, encoding), LAMBDA d :
        Once(SplitLines(d.text), LAMBDA lines :
            IF d.ok THEN {[lines |-> lines, error |-> FALSE]}
            ELSE {[lines |-> SubSeq(lines, 1, k), error |-> TRUE] :
                     k \in 0..CountLF(d.text, Len(d.text))}))

Attempt(bytes, encoding, fields) ==
    {Once(ParseLines(it.lines, 1, fields, <<>>), LAMBDA r :
        IF r.kind = "return" /\ it.error THEN Raise(UnicodeDecodeError, r.parsed) ELSE r) :
     it \in FileLines(bytes, encoding)}

\* lines 231-232: {ke: data[kl] for ke, kl in remap_fields.items()}
RECURSIVE Remap(_, _, _, _)
Remap(data, items, i, out) ==
    IF i > Len(items) THEN out
    ELSE Remap(data, items, i + 1, DictSet(out, items[i].ke, Get(data, items[i].kl)))

RemapMissing(data, items) == \E i \in 1..Len(items) : items[i].kl \notin Keys(data)

\* lines 193-204: readline() needs the block that holds the end of the first
\* line; a byte that cannot be decoded raises if it lies in a block read so far
ReadDatOutcomes(bytes, encoding) ==
    Once(Decode(bytes, encoding), LAMBDA d :
        LET first == ParseColumns(SplitAll(FirstLine(d.text), "TAB"))
        IN IF d.ok THEN {first}
           ELSE IF CountLF(d.text, Len(d.text)) = 0 THEN {Raise(UnicodeDecodeError, 0)}
           ELSE {Raise(UnicodeDecodeError, 0), first})

-----------------------------------------------------------------------------
(* The readers. *)

Functions == {"read_tmd", "read_log", "read_dat"}

NoResult == [done |-> FALSE, attempts |-> <<>>, outcome |-> NoOutcome, remapped |-> FALSE]

Result(atts, outcome, remapped) ==
    [done |-> TRUE, attempts |-> atts, outcome |-> outcome, remapped |-> remapped]

\* one opening of the file: the encoding, and how the pass over it ended
Opened(encoding, outcome) ==
    [encoding |-> encoding,
     ended |-> IF outcome.kind = "raise" THEN outcome.exc.type ELSE outcome.kind]

\* the lines of TMD and LOG files the environment writes (without terminator)
DelimitedLines ==
    { <<"1", ";", "xC3", "xA4", ";", "b">>,
      <<"1", "0", ";", "3", ",", "5">>,
      <<"9", "9", ";", "X">>,
      <<"1", "0">>,
      <<"x", ";", "1">>,
      <<"2", "3", "1", ";", "x">>,
      <<"1", "9", ";", "x">>,
      <<"1", "0", ";", "xE4">>,
      <<"1", ";", "x81">> }

\* the remap_fields a caller passes to read_log; given = FALSE stands for None
RemapChoices ==
    { [given |-> FALSE, items |-> <<>>],
      [given |-> TRUE, items |-> <<[ke |-> "sample_station_no", kl |-> "STATION_NR"]>>] }

\* the columns of the first line of the DAT files the environment writes:
\* n columns, the second one c2
DatColumn(i, c2) ==
    CASE i = 1 -> <<"v">>
      [] i = 2 -> c2
      [] i \in 12..15 -> <<"z">>
      [] i = 17 -> <<"p">>
      [] i = 18 -> <<"q">>
      [] i = 19 -> <<"r">>
      [] i = 22 -> <<"s">>
      [] i \in 23..25 -> <<"t">>
      [] i = 28 -> <<"z">>
      [] OTHER -> <<"1">>

\* the columns lo..hi joined, a tab before each column but the first
RECURSIVE JoinTab(_, _, _)
JoinTab(c2, lo, hi) ==
    IF lo = hi THEN (IF lo > 1 THEN <<"TAB">> ELSE <<>>) \o DatColumn(lo, c2)
    ELSE JoinTab(c2, lo, (lo + hi) \div 2) \o JoinTab(c2, (lo + hi) \div 2 + 1, hi)

DatLines ==
    {JoinTab(c2, 1, n) : n \in {1, 2, 17, 18, 19, 22, 28},
                         c2 \in {<<"1", ".", "5">>, <<"3", ",", "1", "4">>, <<"x">>}}

\* the lines the environment appends to a DAT file after its first line
ExtraLines == {<<"z", "z">>, <<"w", "TAB", "9">>, <<"xE4">>, <<"x81">>}

EndsWithNewline(bytes) == IF bytes = <<>> THEN TRUE ELSE bytes[Len(bytes)] = "LF"

NumLines(bytes) == Len(SplitLines(bytes))

NoneDone == \A f \in Functions : ~results[f].done

\* the encodings the platform's default may be: the one already used, else any
Locales == IF locale = "unset" THEN SeqToSet(Encodings) ELSE {locale}

\* lines 228, 193: open() without an encoding uses the platform's default
DefaultEncoding(loc) == loc

\* line 176: the loop moves on to the next encoding of the tuple
NextEncoding(i) == i + 1

\* an except clause that passes over every exception
CaughtAny(outcome) == outcome.kind = "raise"

\* line 180: except UnicodeDecodeError: pass
Caught(outcome) == outcome.kind = "raise" /\ outcome.exc.type = "UnicodeDecodeError"

\* lines 183-186: the terminal error, with what chardet.detect_all guessed
\* from all the bytes of the file
UnexpectedEncoding == Exc("ValueError", "Unexpected encoding. Guessed detect_all(f.read())", <<>>)

\* no file written, no call made; the file system of the finder stays empty
Init ==
    /\ content = <<>>
    /\ kind = "none"
    /\ locale = "unset"
    /\ rpc = "idle"
    /\ encIdx = 0
    /\ attempts = <<>>
    /\ results = [f \in Functions |-> NoResult]
    /\ base = NoResult
    /\ appended = 0
    /\ dirs = {Top}
    /\ files = {}
    /\ project_root = Top
    /\ ignore_patterns = {}
    /\ fpc = "setup"
    /\ stack = <<>>
    /\ visited = {}
    /\ enumerated = {}
    /\ yielded = <<>>

\* the environment writes one more line of a TMD or LOG file
WriteLine ==
    /\ rpc = "idle" /\ NoneDone
    /\ kind \in {"none", "delimited"}
    /\ EndsWithNewline(content)
    /\ NumLines(content) < MaxLines
    /\ \E l \in DelimitedLines, nl \in {<<"LF">>, <<>>} :
          content' = content \o l \o nl
    /\ kind' = "delimited"
    /\ UNCHANGED <<locale, rpc, encIdx, attempts, results, base, appended, findVars>>

\* the environment writes the first line of a DAT file
WriteDat ==
    /\ rpc = "idle" /\ NoneDone
    /\ kind = "none"
    /\ \E l \in DatLines, nl \in {<<"LF">>, <<>>} :
          content' = l \o nl
    /\ kind' = "dat"
    /\ UNCHANGED <<locale, rpc, encIdx, attempts, results, base, appended, findVars>>

\* the environment appends a line after the first line of a DAT file that
\* read_dat has been called on
AppendLine ==
    /\ rpc = "idle"
    /\ kind = "dat"
    /\ base.done
    /\ appended < MaxAppended
    /\ \E l \in ExtraLines :
          content' = content \o (IF EndsWithNewline(content) THEN <<>> ELSE <<"LF">>)
                             \o l \o <<"LF">>
    /\ appended' = appended + 1
    /\ results' = [f \in Functions |-> NoResult]
    /\ UNCHANGED <<kind, locale, rpc, encIdx, attempts, base, findVars>>

\* lines 172-176: read_tmd is called and enters its loop over the encodings
CallTmd ==
    /\ rpc = "idle"
    /\ kind \in {"none", "delimited"}
    /\ ~results["read_tmd"].done
    /\ rpc' = "loop"
    /\ encIdx' = 1
    /\ attempts' = <<>>
    /\ UNCHANGED <<content, kind, locale, results, base, appended, findVars>>

\* lines 176-181: one iteration of the loop: the file is opened with the
\* encoding and parsed; a Record returns, a UnicodeDecodeError is passed
\* over, any other exception leaves the call
TmdAttempt ==
    /\ rpc = "loop"
    /\ encIdx <= Len(Encodings)
    /\ \E o \in Attempt(content, Encodings[encIdx], TMD_FIELDS) :
          /\ attempts' = Append(attempts, Opened(Encodings[encIdx], o))
          /\ IF Caught(o)
             THEN /\ encIdx' = NextEncoding(encIdx)
                  /\ rpc' = IF encIdx' > Len(Encodings) THEN "detect" ELSE "loop"
                  /\ UNCHANGED results
             ELSE /\ results' = [results EXCEPT !["read_tmd"] = Result(attempts', o, FALSE)]
                  /\ rpc' = "idle"
                  /\ UNCHANGED encIdx
    /\ UNCHANGED <<content, kind, locale, base, appended, findVars>>

\* lines 183-186: every encoding failed to decode
TmdDetect ==
    /\ rpc = "detect"
    /\ results' = [results EXCEPT !["read_tmd"] =
                      Result(attempts, Raise(UnexpectedEncoding, 0), FALSE)]
    /\ rpc' = "idle"
    /\ UNCHANGED <<content, kind, locale, encIdx, attempts, base, appended, findVars>>

\* lines 224-234: read_log, called on the file read_tmd was called on
ReadLog ==
    /\ rpc = "idle"
    /\ kind \in {"none", "delimited"}
    /\ results["read_tmd"].done
    /\ ~results["read_log"].done
    /\ \E remap_fields \in RemapChoices, loc \in Locales :
       \E o \in Attempt(content, DefaultEncoding(loc), LOG_FIELDS) :
          /\ locale' = loc
          /\ results' = [results EXCEPT !["read_log"] =
              Result(<<Opened(DefaultEncoding(loc), o)>>,
                     IF o.kind = "return" /\ remap_fields.given
                     THEN (IF RemapMissing(o.rec, remap_fields.items)
                           THEN Raise(Exc("KeyError", "", <<>>), o.parsed)
                           ELSE Returned(Remap(o.rec, remap_fields.items, 1, <<>>), o.parsed))
                     ELSE o,
                     remap_fields.given /\ o.kind = "return")]
    /\ UNCHANGED <<content, kind, rpc, encIdx, attempts, base, appended, findVars>>

\* lines 189-204: read_dat
ReadDat ==
    /\ rpc = "idle"
    /\ kind \in {"none", "dat"}
    /\ ~results["read_dat"].done
    /\ \E loc \in Locales :
       \E o \in ReadDatOutcomes(content, DefaultEncoding(loc)) :
          /\ locale' = loc
          /\ results' = [results EXCEPT !["read_dat"] =
                            Result(<<Opened(DefaultEncoding(loc), o)>>, o, FALSE)]
          /\ base' = IF appended = 0 THEN results'["read_dat"] ELSE base
    /\ UNCHANGED <<content, kind, rpc, encIdx, attempts, appended, findVars>>

Next ==
    \/ WriteLine \/ WriteDat \/ AppendLine
    \/ CallTmd \/ TmdAttempt \/ TmdDetect
    \/ ReadLog \/ ReadDat

\* the data root finder, on the trees the environment builds
FindSpec == InitFind /\ [][NextFind]_vars

\* the readers, on the files the environment writes
Spec == Init /\ [][Next]_vars

\* a call of read_tmd that has started goes on: the code does not wait
FairSpec == Spec /\ WF_vars(TmdAttempt) /\ WF_vars(TmdDetect)

-----------------------------------------------------------------------------
(* Claims about the data root finder. *)

HasBoth(d) ==
    /\ Append(d, "Pictures") \in dirs
    /\ Append(d, "Telemetrie") \in dirs

Pending == SeqToSet(stack)

ProperDescendant(p, q) == IsPrefix(q, p) /\ Len(p) > Len(q)

\* the path matches one of the patterns given to the call
MatchesIgnore(p) == \E pat \in ignore_patterns : PathMatch(p, pat)

\* C1: find_data_roots stops at a match: a directory the search calls on that
\* directly contains both a subdirectory Pictures and a subdirectory Telemetrie
\* (and is not ignored) is yielded, no descendant of a yielded directory is
\* ever visited, pending or yielded, and when the root itself contains both
\* the finished search has yielded exactly the root.
C1_StopsAtMatch ==
    /\ \A d \in visited : HasBoth(d) /\ ~MatchesIgnore(d) => d \in SeqToSet(yielded)
    /\ \A y \in SeqToSet(yielded) :
          \A p \in visited \cup Pending \cup SeqToSet(yielded) : ~ProperDescendant(p, y)
    /\ (fpc = "done" /\ HasBoth(project_root) /\ ~MatchesIgnore(project_root))
          => yielded = <<project_root>>

\* the root has both, and so has its Pictures directory; the search is over
C1_Witness ==
    /\ fpc = "done"
    /\ HasBoth(project_root)
    /\ HasBoth(Append(project_root, "Pictures"))
    /\ yielded = <<project_root>>

\* C2: with ignore patterns, no yielded directory matches an ignore pattern
\* or lies below a directory, between the root and itself, that matches one;
\* and no directory that matches a pattern is ever enumerated.
C2_IgnoredNeverYielded ==
    /\ \A y \in SeqToSet(yielded) :
          \A k \in Len(project_root)..Len(y) : ~MatchesIgnore(SubSeq(y, 1, k))
    /\ \A e \in enumerated : ~MatchesIgnore(e)

\* an ignored directory that has both names, and another one with both names
\* below it, were passed over by a finished search
C2_Witness ==
    /\ fpc = "done"
    /\ \E d \in visited :
          /\ MatchesIgnore(d)
          /\ HasBoth(d)
          /\ d \notin SeqToSet(yielded)
          /\ d \notin enumerated
    /\ \E d \in dirs :
          /\ HasBoth(d)
          /\ \E k \in Len(project_root)..(Len(d) - 1) : MatchesIgnore(SubSeq(d, 1, k))
          /\ d \notin visited

-----------------------------------------------------------------------------
(* Claims about the readers. *)

Registry(f) == IF f = "read_tmd" THEN TMD_FIELDS ELSE LOG_FIELDS

\* the encoding of the opening that ended the call
FinalEncoding(r) == r.attempts[Len(r.attempts)].encoding

FinalDecode(r) == Decode(content, FinalEncoding(r))

\* the lines of the file as the final opening decoded them (up to the first
\* byte it could not decode)
LinesRead(r) == SplitLines(FinalDecode(r).text)

IsTerminalDecodeError(o) ==
    /\ o.kind = "raise"
    /\ o.exc.type = "ValueError"
    /\ o.exc.msg = "Unexpected encoding. Guessed detect_all(f.read())"

\* the call was left by an exception of the line parser
IsParseError(r) ==
    /\ r.outcome.kind = "raise"
    /\ r.outcome.exc.type # "UnicodeDecodeError"
    /\ ~IsTerminalDecodeError(r.outcome)
    /\ r.outcome.parsed < Len(LinesRead(r))

AttemptsInOrder(a) ==
    /\ Len(a) <= 2
    /\ Len(a) >= 1 => a[1].encoding = "utf-8"
    /\ Len(a) = 2 => a[2].encoding = "Windows-1252" /\ a[1].ended = "UnicodeDecodeError"

BothFailedToDecode(a) ==
    Len(a) = 2 /\ a[1].ended = "UnicodeDecodeError" /\ a[2].ended = "UnicodeDecodeError"

\* a step of a running call leaves the list of openings alone or adds one
AttemptsOnlyGrow ==
    rpc \in {"loop", "detect"} =>
       \/ attempts' = attempts
       \/ /\ Len(attempts') = Len(attempts) + 1
          /\ SubSeq(attempts', 1, Len(attempts)) = attempts

\* C3: read_tmd's encoding fallback is a finite ordered attempt list: UTF-8
\* first, Windows-1252 only after the UTF-8 attempt ended in a decode failure,
\* each at most once and never back to an earlier one; when both end in a
\* decode failure the call raises the error reporting the detector's guesses
\* and returns no Record; and a call that has started always ends.
C3_EncodingFallback ==
    /\ [](AttemptsInOrder(attempts) /\ AttemptsInOrder(results["read_tmd"].attempts))
    /\ [][AttemptsOnlyGrow]_vars
    /\ [](results["read_tmd"].done =>
            /\ results["read_tmd"].attempts = attempts
            /\ BothFailedToDecode(attempts) <=> IsTerminalDecodeError(results["read_tmd"].outcome)
            /\ BothFailedToDecode(attempts) => results["read_tmd"].outcome.rec = <<>>)
    /\ (rpc = "loop") ~> (rpc = "idle" /\ results["read_tmd"].done)

\* both encodings were tried, both failed to decode, the terminal error was raised
C3_Witness ==
    /\ results["read_tmd"].done
    /\ BothFailedToDecode(results["read_tmd"].attempts)
    /\ IsTerminalDecodeError(results["read_tmd"].outcome)

\* C4: read_tmd is all-or-nothing: it returns a Record only when every line
\* of the file parsed; when a line raises a parse error the call raises the
\* error of the first such line, right there (no later line is parsed), and
\* no Record, not even of the lines parsed before, is returned.
C4_AllOrNothing ==
    LET r == results["read_tmd"] IN
    r.done =>
       \A lines \in {LinesRead(r)} :
       \A bad \in {{i \in 1..Len(lines) : ~parse_tmd_line(lines[i], TMD_FIELDS).ok}} :
          /\ r.outcome.kind = "return" =>
                /\ FinalDecode(r).ok
                /\ bad = {}
                /\ r.outcome.parsed = Len(lines)
          /\ (FinalDecode(r).ok /\ bad # {}) =>
                /\ r.outcome.kind = "raise"
                /\ r.outcome.rec = <<>>
                /\ r.outcome.exc = parse_tmd_line(lines[MinOf(bad)], TMD_FIELDS).exc
                /\ r.outcome.parsed = MinOf(bad) - 1
          /\ IsParseError(r) =>
                /\ r.outcome.rec = <<>>
                /\ bad # {}
                /\ r.outcome.parsed = MinOf(bad) - 1
                /\ r.outcome.exc = parse_tmd_line(lines[MinOf(bad)], TMD_FIELDS).exc

\* two lines parsed, the third has an unknown code: the call raised for it
C4_Witness ==
    /\ results["read_tmd"].done
    /\ NumLines(content) = 3
    /\ results["read_tmd"].outcome.kind = "raise"
    /\ results["read_tmd"].outcome.exc.type = "KeyError"
    /\ results["read_tmd"].outcome.parsed = 2
    /\ results["read_tmd"].outcome.rec = <<>>

\* C5: read_log follows the same read path as read_tmd: on every file,
\* read_log without remap and read_tmd go through the same sequence of
\* encoding attempts, and end in the terminal decode error on the same files.
C5_SameReadPath ==
    (results["read_tmd"].done /\ results["read_log"].done /\ ~results["read_log"].remapped) =>
        /\ Len(results["read_log"].attempts) = Len(results["read_tmd"].attempts)
        /\ \A i \in 1..Len(results["read_log"].attempts) :
              results["read_log"].attempts[i].encoding = results["read_tmd"].attempts[i].encoding
        /\ IsTerminalDecodeError(results["read_log"].outcome)
              <=> IsTerminalDecodeError(results["read_tmd"].outcome)

NoSeparator(line) == IndexOf(RStrip(line, "LF"), ";") = 0

CodePart(line) == Split1(RStrip(line, "LF"), ";")[1]

NonNumericCode(line) == ~NoSeparator(line) /\ ~IsIntLiteral(CodePart(line))

\* C6: a line without ';' and a line whose code part is not numeric both fail
\* with an error that carries the note naming the offending line; the split
\* is on the first ';' only, so a value that contains ';' is kept whole.
C6_FormatErrorsCarryLine ==
    \A f \in {"read_tmd", "read_log"} :
       LET r == results[f] IN
       (r.done /\ IsParseError(r)) =>
          LET line == LinesRead(r)[r.outcome.parsed + 1]
              p == parse_tmd_line(line, Registry(f))
          IN /\ (NoSeparator(line) \/ NonNumericCode(line)) =>
                   /\ r.outcome.exc.type = "ValueError"
                   /\ OffendingLine(line) \in SeqToSet(r.outcome.exc.notes)
             /\ \A i \in 1..r.outcome.parsed :
                   LET l == LinesRead(r)[i]
                       q == parse_tmd_line(l, Registry(f))
                   IN (q.ok /\ Lookup(Registry(f), IntValue(CodePart(l))).converter = "None") =>
                         q.value = <<"str">> \o SubSeq(RStrip(l, "LF"),
                                                      IndexOf(l, ";") + 1, Len(RStrip(l, "LF")))

\* the lines of the file, split at the newline bytes
ByteLines == SplitLines(content)

\* the line is "<c>;<v>" with a numeric code c that the registry lacks
HasUnknownCode(line, fields) ==
    Once(Split1(RStrip(line, "LF"), ";"), LAMBDA parts :
        /\ Len(parts) = 2
        /\ IsIntLiteral(parts[1])
        /\ IntValue(parts[1]) \notin DOMAIN fields)

\* values of every kind: empty, text, numbers, one with the separator in
\* it (the parser is applied to them before a file is written)
SampleValues ==
    {<<>>, <<"X">>, <<"3", ",", "5">>, <<"1", "2">>, <<"a", ";", "b">>, <<"LF">>}

\* C7: an unknown field code is never silently ignored: for both registries
\* the parser raises on every line "<c>;<v>" whose numeric code c the registry
\* lacks, and read_tmd / read_log raise on every file that holds such a line,
\* they never return a Record that omits it.
C7_UnknownCodeRaises ==
    \A f \in {"read_tmd", "read_log"} :
       /\ kind = "none" =>
             \A v \in SampleValues :
                \A p \in {parse_tmd_line(<<"9", "9", ";">> \o v, Registry(f))} :
                   ~p.ok /\ p.exc.type = "KeyError"
       /\ \A l \in SeqToSet(ByteLines) :
             HasUnknownCode(l, Registry(f)) =>
                \A d \in {Decode(l, enc) : enc \in SeqToSet(Encodings)} :
                   d.ok =>
                      \A p \in {parse_tmd_line(d.text, Registry(f))} :
                         ~p.ok /\ p.exc.type = "KeyError"
       /\ (results[f].done /\ \E l \in SeqToSet(ByteLines) : HasUnknownCode(l, Registry(f)))
             => results[f].outcome.kind = "raise"

\* a file with a line whose code neither registry has: both readers raised
\* the KeyError
C7_Witness ==
    /\ results["read_tmd"].done /\ results["read_log"].done
    /\ \E l \in SeqToSet(ByteLines) :
          HasUnknownCode(l, TMD_FIELDS) /\ HasUnknownCode(l, LOG_FIELDS)
    /\ results["read_tmd"].outcome.exc.type = "KeyError"
    /\ results["read_log"].outcome.exc.type = "KeyError"

\* the columns of the first line as read_dat's opening decoded it
ColumnsRead(r) == SplitAll(FirstLine(FinalDecode(r).text), "TAB")

UnknownColumns == {17, 18, 19, 22}

\* got holds one entry per name of the pairs, each with the value of the
\* last pair of that name
LastWriteWins(got, pairs) ==
    /\ Keys(got) = {pairs[i].name : i \in 1..Len(pairs)}
    /\ Len(got) = Cardinality(Keys(got))
    /\ \A i \in 1..Len(pairs) :
          (\A j \in (i + 1)..Len(pairs) : pairs[j].name # pairs[i].name) =>
             Get(got, pairs[i].name) = pairs[i].value

\* the (name, value) pairs of the lines, in file order
ParsedLines(lines, fields) ==
    [n \in 1..Len(lines) |-> parse_tmd_line(lines[n], fields)]

\* the (name, value) pairs of the registry's columns, in column order
RegistryColumns(columns) ==
    LET at == SelectSeq([i \in 1..Len(columns) |-> i], LAMBDA i : i \in DOMAIN DAT_FIELDS)
    IN [k \in 1..Len(at) |-> parse_dat_line(at[k], columns[at[k]], DAT_FIELDS)]

\* C8: Records are last-write-wins by field name: a returned Record has
\* exactly one entry per field name encountered, with the converted value of
\* the last line (TMD, LOG) or column (DAT) of that name; in read_dat the
\* positions 17, 18, 19 and 22, all named UNKNOWN, collapse to one entry with
\* the value of the highest of these columns present.
C8_LastWriteWins ==
    /\ \A f \in {"read_tmd", "read_log"} :
          LET r == results[f] IN
          (r.done /\ r.outcome.kind = "return" /\ ~r.remapped) =>
             \A lines \in {LinesRead(r)} :
                LastWriteWins(r.outcome.rec, ParsedLines(lines, Registry(f)))
    /\ LET r == results["read_dat"] IN
       (r.done /\ r.outcome.kind = "return") =>
          \A columns \in {ColumnsRead(r)} :
             /\ LastWriteWins(r.outcome.rec, RegistryColumns(columns))
             /\ LET u == UnknownColumns \cap (1..Len(columns)) IN
                IF u = {} THEN "UNKNOWN" \notin Keys(r.outcome.rec)
                ELSE /\ Cardinality({i \in 1..Len(r.outcome.rec) :
                                        r.outcome.rec[i].name = "UNKNOWN"}) = 1
                     /\ Get(r.outcome.rec, "UNKNOWN")
                           = <<"str">> \o RStrip(columns[MaxOf(u)], "LF")

\* read_dat returned the Record of a line with all of the columns 17, 18, 19
\* and 22: UNKNOWN holds the value of column 22
C8_Witness ==
    /\ results["read_dat"].done
    /\ results["read_dat"].outcome.kind = "return"
    /\ Len(ColumnsRead(results["read_dat"])) >= 22
    /\ Get(results["read_dat"].outcome.rec, "UNKNOWN") = <<"str", "s">>

\* the line is "<c>;<v>" with c a locale-float field of the registry
IsLocaleFloatLine(line, fields) ==
    Once(Split1(RStrip(line, "LF"), ";"), LAMBDA parts :
        /\ Len(parts) = 2
        /\ IsIntLiteral(parts[1])
        /\ IntValue(parts[1]) \in DOMAIN fields
        /\ fields[IntValue(parts[1])].converter = "german_float")

ValuePart(line) == Split1(RStrip(line, "LF"), ";")[2]

Unparsable(raw) == ~IsFloatLiteral(Replace(raw, ",", "."))

\* C9: the converter failure policy differs by format: a TMD or LOG
\* locale-float field whose raw value is no number (after ',' became '.')
\* yields not-a-number and never makes the read fail, while a DAT numeric
\* field whose raw value is no number makes read_dat raise with the note
\* naming the field; "3,14" converts to 3.14 under the locale-float converter.
C9_ConverterPolicy ==
    /\ \A f \in {"read_tmd", "read_log"} :
          LET r == results[f] IN
          /\ (r.done /\ IsParseError(r)) =>
                ~IsLocaleFloatLine(LinesRead(r)[r.outcome.parsed + 1], Registry(f))
          /\ (r.done /\ r.outcome.kind = "return" /\ ~r.remapped) =>
                \A lines \in {LinesRead(r)} :
                \A i \in 1..Len(lines) :
                   LET l == lines[i] IN
                   (/\ IsLocaleFloatLine(l, Registry(f))
                    /\ \A j \in (i + 1)..Len(lines) :
                          CodePart(lines[j]) # CodePart(l)) =>
                      Get(r.outcome.rec, Registry(f)[IntValue(CodePart(l))].name)
                         = IF Unparsable(ValuePart(l)) THEN NAN
                           ELSE FloatValue(Replace(ValuePart(l), ",", "."))
    /\ LET r == results["read_dat"] IN
       (r.done /\ r.outcome.exc.type # "UnicodeDecodeError") =>
          \A columns \in {ColumnsRead(r)} :
          \A bad \in {{i \in 1..Len(columns) :
                          /\ i \in DOMAIN DAT_FIELDS
                          /\ DAT_FIELDS[i].converter = "float"
                          /\ ~IsFloatLiteral(RStrip(columns[i], "LF"))}} :
             bad # {} =>
                /\ r.outcome.kind = "raise"
                /\ r.outcome.exc.type = "ValueError"
                /\ r.outcome.exc.notes = <<FieldNote(DAT_FIELDS[MinOf(bad)].name)>>
    /\ german_float(<<"3", ",", "1", "4">>).value = <<"float", "3", ".", "1", "4">>

\* read_tmd returned a Record whose PRESS is not-a-number, from a file of
\* several lines
C9_Witness ==
    /\ results["read_tmd"].done
    /\ results["read_tmd"].outcome.kind = "return"
    /\ NumLines(content) >= 2
    /\ "PRESS" \in Keys(results["read_tmd"].outcome.rec)
    /\ Get(results["read_tmd"].outcome.rec, "PRESS") = NAN

\* C10: read_dat honours only the first line: with any lines appended after
\* the first line it ends as it did on the first line alone; the Record has
\* entries only for the column positions of the DAT registry.
C10_FirstLineOnly ==
    (kind = "dat" /\ base.done /\ results["read_dat"].done) =>
        /\ results["read_dat"].outcome = base.outcome
        /\ results["read_dat"].outcome.kind = "return" =>
              Keys(results["read_dat"].outcome.rec)
                 \subseteq {DAT_FIELDS[c].name : c \in DOMAIN DAT_FIELDS}

====
